---- MODULE Spec2Model ----
(***************************************************************************)
(* Spaces-Backend: the compute service (main.py) in front of the exact     *)
(* linear-algebra engine (matrix_engine.py) and its TTL/LRU result cache.  *)
(*                                                                         *)
(* Indices are 1-based here (TLA+ sequences); the Python code and SymPy    *)
(* report pivot columns 0-based.  A rational is a pair <<p, q>> in lowest  *)
(* terms with q > 0, as SymPy's Rational keeps it.                         *)
(***************************************************************************)
EXTENDS Integers, Sequences, FiniteSets, TLC

VARIABLES cache, now, last, accessed, evicted, request

vars == <<cache, now, last, accessed, evicted, request>>

(***************************************************************************)
(* Bounds of the model and configuration.                                  *)
(***************************************************************************)
\* MatrixEngine.MAX_DIMENSION
MAX_DIMENSION == 5
\* settings.cache_size and settings.cache_ttl: environment-configured
\* (defaults 100 and 3600); the model runs the cache with a small capacity
\* and a short time-to-live.
CacheSize == 2
CacheTtl == 1
\* the monotonic clock is followed until every entry stored at time 0 has
\* expired and one tick more
MaxTime == CacheTtl + 1
\* largest shape of the exhaustively enumerated integer matrices
MaxRows == 2
MaxCols == 2
\* GZipMiddleware minimum_size and the like are outside the model.

(***************************************************************************)
(* Exact rationals (sympy.Rational).                                       *)
(***************************************************************************)
Abs(x) == IF x < 0 THEN -x ELSE x

\* the element of a singleton: { e(x) : x \in {v} } names v once, as a local
\* variable of the code does
Only(S) == CHOOSE v \in S : TRUE

RECURSIVE Gcd(_, _)
Gcd(a, b) == IF b = 0 THEN a ELSE Gcd(b, a % b)

\* Rational(p, q), q # 0: lowest terms, positive denominator
Rat(p, q) ==
    LET g == Gcd(Abs(p), Abs(q))
        s == IF q < 0 THEN -1 ELSE 1
    IN  <<(s * p) \div g, (s * q) \div g>>

Zero == <<0, 1>>
One == <<1, 1>>
IsZero(a) == a[1] = 0
RSub(a, b) == Rat(a[1] * b[2] - b[1] * a[2], a[2] * b[2])
RMul(a, b) == Rat(a[1] * b[1], a[2] * b[2])
RDiv(a, b) == Rat(a[1] * b[2], a[2] * b[1])
RNeg(a) == <<-a[1], a[2]>>

(***************************************************************************)
(* Input literals, as the JSON body delivers them to the handler:          *)
(*   int    [kind |-> "int",   n |-> n]        the Python int n            *)
(*   float  [kind |-> "float", n |-> t]        the Python float t/10       *)
(*                                             (one decimal digit)         *)
(*   str    [kind |-> "str",   s |-> chars]    the Python str, as the      *)
(*                                             sequence of its characters  *)
(* (every literal carries both fields, the unused one 0 or <<>>).          *)
(***************************************************************************)
IntLit(n) == [kind |-> "int", n |-> n, s |-> <<>>]
FloatLit(t) == [kind |-> "float", n |-> t, s |-> <<>>]
StrLit(cs) == [kind |-> "str", n |-> 0, s |-> cs]

DigitChars == <<"0", "1", "2", "3", "4", "5", "6", "7", "8", "9">>
DigitSet == {DigitChars[i] : i \in 1..10}
DigitVal(c) == (CHOOSE i \in 1..10 : DigitChars[i] = c) - 1

\* str(n) for a natural number
RECURSIVE NatStr(_)
NatStr(n) == IF n < 10 THEN DigitChars[n + 1]
             ELSE NatStr(n \div 10) \o DigitChars[(n % 10) + 1]

IntStr(n) == IF n < 0 THEN "-" \o NatStr(-n) ELSE NatStr(n)

\* repr(t/10) of a float with one decimal digit: "0.5", "1.0", "-2.5"
FloatRepr(t) ==
    (IF t < 0 THEN "-" ELSE "") \o NatStr(Abs(t) \div 10) \o "." \o NatStr(Abs(t) % 10)

RECURSIVE Join(_)
Join(cs) == IF cs = <<>> THEN "" ELSE cs[1] \o Join(Tail(cs))

IsDigits(cs) == cs # <<>> /\ \A i \in 1..Len(cs) : cs[i] \in DigitSet

RECURSIVE DigitsVal(_)
DigitsVal(cs) == IF cs = <<>> THEN 0
                 ELSE DigitsVal(SubSeq(cs, 1, Len(cs) - 1)) * 10 + DigitVal(cs[Len(cs)])

RECURSIVE Pow10(_)
Pow10(k) == IF k = 0 THEN 1 ELSE 10 * Pow10(k - 1)

Ok(v) == [raised |-> "none", msg |-> "", value |-> v]
Raise(exc, m) == [raised |-> exc, msg |-> m, value |-> <<>>]

\* Rational(str): [-]digits, [-]digits/digits or [-]digits.digits; anything
\* else raises TypeError("invalid input"), a zero denominator
\* ZeroDivisionError.
RationalOfStr(cs) ==
    LET neg == cs # <<>> /\ cs[1] = "-"
        body == IF neg THEN Tail(cs) ELSE cs
        sg == IF neg THEN -1 ELSE 1
        seps == {i \in 1..Len(body) : body[i] \in {"/", "."}}
    IN  IF seps = {}
        THEN IF IsDigits(body) THEN Ok(Rat(sg * DigitsVal(body), 1))
             ELSE Raise("TypeError", "invalid input")
        ELSE LET i == CHOOSE k \in seps : \A j \in seps : k >= j
                 lhs == SubSeq(body, 1, i - 1)
                 rhs == SubSeq(body, i + 1, Len(body))
             IN  IF Cardinality(seps) > 1 \/ ~IsDigits(lhs) \/ ~IsDigits(rhs)
                 THEN Raise("TypeError", "invalid input")
                 ELSE IF body[i] = "/"
                 THEN IF DigitsVal(rhs) = 0 THEN Raise("ZeroDivisionError", "division by zero")
                      ELSE Ok(Rat(sg * DigitsVal(lhs), DigitsVal(rhs)))
                 ELSE Ok(Rat(sg * (DigitsVal(lhs) * Pow10(Len(rhs)) + DigitsVal(rhs)),
                             Pow10(Len(rhs))))

\* one entry of _validate_and_parse's loop: nsimplify(val, rational=True)
\* for a float (its base-10 reading), Rational(val) for an int or a str
ParseValue(val) ==
    CASE val.kind = "float" -> Ok(Rat(val.n, 10))
      [] val.kind = "int" -> Ok(Rat(val.n, 1))
      [] OTHER -> RationalOfStr(val.s)

(***************************************************************************)
(* generate_cache_key: SHA-256 of json.dumps(matrix_data, sort_keys=True). *)
(***************************************************************************)
\* a serialisation that writes a whole float as an integer (1.0 as 1)
JsonValueWholeFloatAsInt(val) ==
    CASE val.kind = "int" -> IntStr(val.n)
      [] val.kind = "float" ->
            IF val.n % 10 = 0 THEN IntStr(val.n \div 10) ELSE FloatRepr(val.n)
      [] OTHER -> "\"" \o Join(val.s) \o "\""

JsonValue(val) ==
    CASE val.kind = "int" -> IntStr(val.n)
      [] val.kind = "float" -> FloatRepr(val.n)
      [] OTHER -> "\"" \o Join(val.s) \o "\""

\* "[" + ", ".join(items) + "]"
RECURSIVE JsonItems(_)
JsonItems(strs) ==
    IF strs = <<>> THEN ""
    ELSE IF Len(strs) = 1 THEN strs[1]
    ELSE strs[1] \o ", " \o JsonItems(Tail(strs))

JsonList(strs) == "[" \o JsonItems(strs) \o "]"

JsonDumps(matrix_data) ==
    JsonList([i \in 1..Len(matrix_data) |->
        JsonList([j \in 1..Len(matrix_data[i]) |-> JsonValue(matrix_data[i][j])])])

\* hashlib.sha256(...).hexdigest(): a digest is modelled by the text it is
\* taken of (no collisions on the inputs enumerated)
Sha256(text) == "sha256(" \o text \o ")"

generate_cache_key(matrix_data) == Sha256(JsonDumps(matrix_data))

(***************************************************************************)
(* MatrixEngine._validate_and_parse                                        *)
(***************************************************************************)
RowsMsg(m) == "Number of rows must be <= " \o IntStr(MAX_DIMENSION) \o ", got " \o IntStr(m)
ColsMsg(n) == "Number of columns must be <= " \o IntStr(MAX_DIMENSION) \o ", got " \o IntStr(n)
EmptyMsg == "Matrix cannot be empty"
ZeroColsMsg == "Matrix cannot have zero columns"
RaggedMsg == "All rows must have the same number of columns"
InvalidMsg(m) == "Invalid numeric value in matrix: " \o m

\* the try block of lines 90-106: the entries are parsed in row-major order
\* and the first one that raises ends the loop
ParseEntries(raw_data) ==
    LET m == Len(raw_data)
        n == Len(raw_data[1])
        cells == {<<i, j>> : i \in 1..m, j \in 1..n}
        bad == {c \in cells : ParseValue(raw_data[c[1]][c[2]]).raised # "none"}
    IN  IF bad = {}
        THEN Ok([i \in 1..m |-> [j \in 1..n |-> ParseValue(raw_data[i][j]).value]])
        ELSE LET first == CHOOSE c \in bad : \A d \in bad :
                              c[1] < d[1] \/ (c[1] = d[1] /\ c[2] <= d[2])
             IN  Raise("ValueError",
                       InvalidMsg(ParseValue(raw_data[first[1]][first[2]]).msg))

\* The isinstance checks of lines 64 and 73 cannot fail here: the request
\* model types the body as List[List[Any]].
\* a validation without the bound on the number of columns
validate_and_parse_unbounded_columns(raw_data) ==
    IF raw_data = <<>> THEN Raise("ValueError", EmptyMsg)
    ELSE IF Len(raw_data) > MAX_DIMENSION THEN Raise("ValueError", RowsMsg(Len(raw_data)))
    ELSE IF Len(raw_data[1]) = 0 THEN Raise("ValueError", ZeroColsMsg)
    ELSE IF \E i \in 1..Len(raw_data) : Len(raw_data[i]) # Len(raw_data[1])
         THEN Raise("ValueError", RaggedMsg)
    ELSE ParseEntries(raw_data)

\* a validation that reports an empty first row as an empty matrix
validate_and_parse_one_empty_kind(raw_data) ==
    IF raw_data = <<>> THEN Raise("ValueError", EmptyMsg)
    ELSE IF Len(raw_data) > MAX_DIMENSION THEN Raise("ValueError", RowsMsg(Len(raw_data)))
    ELSE IF Len(raw_data[1]) = 0 THEN Raise("ValueError", EmptyMsg)
    ELSE IF Len(raw_data[1]) > MAX_DIMENSION
         THEN Raise("ValueError", ColsMsg(Len(raw_data[1])))
    ELSE IF \E i \in 1..Len(raw_data) : Len(raw_data[i]) # Len(raw_data[1])
         THEN Raise("ValueError", RaggedMsg)
    ELSE ParseEntries(raw_data)

validate_and_parse(raw_data) ==
    IF raw_data = <<>> THEN Raise("ValueError", EmptyMsg)
    ELSE IF Len(raw_data) > MAX_DIMENSION THEN Raise("ValueError", RowsMsg(Len(raw_data)))
    ELSE IF Len(raw_data[1]) = 0 THEN Raise("ValueError", ZeroColsMsg)
    ELSE IF Len(raw_data[1]) > MAX_DIMENSION
         THEN Raise("ValueError", ColsMsg(Len(raw_data[1])))
    ELSE IF \E i \in 1..Len(raw_data) : Len(raw_data[i]) # Len(raw_data[1])
         THEN Raise("ValueError", RaggedMsg)
    ELSE ParseEntries(raw_data)

(***************************************************************************)
(* SymPy's row reduction, as Matrix.rref, echelon_form, rank, columnspace, *)
(* rowspace and nullspace use it (sympy/matrices/reductions.py,            *)
(* subspaces.py): fraction-free elimination on the first nonzero entry of  *)
(* each column, normalising last.                                          *)
(***************************************************************************)
NRows(M) == Len(M)
NCols(M) == Len(M[1])

Transpose(M) == [j \in 1..NCols(M) |-> [i \in 1..NRows(M) |-> M[i][j]]]

\* an elimination step with the sign of the second term flipped
CrossCancelAdded(a, rowI, b, rowJ) ==
    [p \in 1..Len(rowI) |-> RSub(RMul(a, rowI[p]), RMul(RNeg(b), rowJ[p]))]

\* cross_cancel(a, i, b, j): row[i] = a*row[i] - b*row[j]
CrossCancel(a, rowI, b, rowJ) ==
    [p \in 1..Len(rowI) |-> RSub(RMul(a, rowI[p]), RMul(b, rowJ[p]))]

RECURSIVE RowReduceLoop(_, _, _, _, _)
RowReduceLoop(mat, piv_row, piv_col, pivot_cols, zero_above) ==
    IF piv_col > NCols(mat) \/ piv_row > NRows(mat)
    THEN [mat |-> mat, pivots |-> pivot_cols]
    ELSE LET cand == {i \in piv_row..NRows(mat) : ~IsZero(mat[i][piv_col])}
         IN  IF cand = {}
             THEN RowReduceLoop(mat, piv_row, piv_col + 1, pivot_cols, zero_above)
             ELSE LET src == CHOOSE i \in cand : \A k \in cand : i <= k
                      swapped == [mat EXCEPT ![piv_row] = mat[src], ![src] = mat[piv_row]]
                      pivot_val == swapped[piv_row][piv_col]
                      cleared ==
                          [row \in 1..NRows(mat) |->
                              IF \/ row = piv_row
                                 \/ (~zero_above /\ row < piv_row)
                                 \/ IsZero(swapped[row][piv_col])
                              THEN swapped[row]
                              ELSE CrossCancel(pivot_val, swapped[row],
                                               swapped[row][piv_col], swapped[piv_row])]
                  IN  Only({RowReduceLoop(next, piv_row + 1, piv_col + 1,
                                          Append(pivot_cols, piv_col), zero_above) :
                            next \in {cleared}})

\* the closing "normalize each row" loop
Normalize(mat, pivot_cols) ==
    [i \in 1..NRows(mat) |->
        IF i <= Len(pivot_cols)
        THEN [p \in 1..NCols(mat) |->
                 IF p < pivot_cols[i] THEN mat[i][p]
                 ELSE IF p = pivot_cols[i] THEN One
                 ELSE RDiv(mat[i][p], mat[i][pivot_cols[i]])]
        ELSE mat[i]]

\* Matrix.rref(): normalize=True, zero_above=True
rref(M) ==
    Only({[mat |-> Normalize(r.mat, r.pivots), pivots |-> r.pivots] :
          r \in {RowReduceLoop(M, 1, 1, <<>>, TRUE)}})

\* Matrix.echelon_form(with_pivots=True): normalize=False, zero_above=False
echelon_form(M) == RowReduceLoop(M, 1, 1, <<>>, FALSE)

\* Matrix.rank(): the number of pivots of the echelon form
rank(M) == Len(echelon_form(M).pivots)

\* Matrix.columnspace(): the columns of M at the echelon form's pivots
columnspace(M) ==
    Only({[k \in 1..Len(piv) |-> [i \in 1..NRows(M) |-> <<M[i][piv[k]]>>]] :
          piv \in {echelon_form(M).pivots}})

\* Matrix.rowspace(): the first len(pivots) rows of the echelon form
rowspace(M) ==
    Only({[k \in 1..Len(e.pivots) |-> <<e.mat[k]>>] : e \in {echelon_form(M)}})

\* the increasing enumeration of a set of column indices
RECURSIVE Sorted(_)
Sorted(S) == IF S = {} THEN <<>>
             ELSE LET lo == CHOOSE x \in S : \A y \in S : x <= y
                  IN  <<lo>> \o Sorted(S \ {lo})

\* Matrix.nullspace(): one vector per free column of the rref
NullVectors(r, n) ==
    LET pivset == {r.pivots[k] : k \in 1..Len(r.pivots)}
        free_vars == Sorted((1..n) \ pivset)
        PivRow(c) == CHOOSE k \in 1..Len(r.pivots) : r.pivots[k] = c
    IN  [f \in 1..Len(free_vars) |->
            [c \in 1..n |->
                <<IF c = free_vars[f] THEN One
                  ELSE IF c \in pivset THEN RNeg(r.mat[PivRow(c)][free_vars[f]])
                  ELSE Zero>>]]

nullspace(M) == Only({NullVectors(r, NCols(M)) : r \in {rref(M)}})

(***************************************************************************)
(* sympy_to_python and MatrixEngine.compute_all_spaces.                    *)
(* Python values handed to sympy_to_python carry their type:               *)
(*   [t |-> "list", items |-> <<...>>]   a list                            *)
(*   [t |-> "sympy", q |-> <<p, d>>]     a SymPy Integer or Rational       *)
(* and it returns lists, [t |-> "int", ...] and [t |-> "float", ...].      *)
(***************************************************************************)
PyList(items) == [t |-> "list", items |-> items]
Sym(q) == [t |-> "sympy", q |-> q]

\* Matrix.tolist()
tolist(M) == PyList([i \in 1..NRows(M) |-> PyList([j \in 1..NCols(M) |-> Sym(M[i][j])])])

\* [v.tolist() for v in basis]
tolists(basis) == PyList([k \in 1..Len(basis) |-> tolist(basis[k])])

\* functools.lru_cache builds its key from the argument and hashes it before
\* the wrapped function runs
Hashable(obj) == obj.t # "list"

\* @lru_cache(maxsize=256) def sympy_to_python(obj); the tuple and dict
\* branches are left out: the engine passes lists of lists of SymPy numbers
RECURSIVE sympy_to_python(_)
sympy_to_python(obj) ==
    IF ~Hashable(obj) THEN Raise("TypeError", "unhashable type: 'list'")
    ELSE IF obj.t = "list"
    THEN LET conv == [i \in 1..Len(obj.items) |-> sympy_to_python(obj.items[i])]
             bad == {i \in 1..Len(conv) : conv[i].raised # "none"}
         IN  IF bad = {} THEN Ok(PyList([i \in 1..Len(conv) |-> conv[i].value]))
             ELSE conv[CHOOSE i \in bad : \A k \in bad : i <= k]
    ELSE IF obj.q[2] = 1 THEN Ok([t |-> "int", v |-> obj.q[1]])
    ELSE Ok([t |-> "float", v |-> obj.q])

\* compute_all_spaces: the locals of lines 164-171, then the dict display of
\* lines 173-218, whose entries are evaluated in order, so that the first
\* sympy_to_python call that raises ends the method.  The latex renderings
\* and the description strings are left out.
AssembleResult(m, n, rk, rr, column_space, row_space, null_space, left_null_space, conv) ==
    LET bad == {i \in 1..Len(conv) : conv[i].raised # "none"}
    IN  IF bad # {} THEN conv[CHOOSE i \in bad : \A k \in bad : i <= k]
        ELSE Ok([matrix |-> [data |-> conv[1].value, rows |-> m, cols |-> n],
                 rank |-> rk,
                 rref |-> [matrix |-> conv[2].value, pivots |-> rr.pivots],
                 column_space |-> [basis |-> conv[3].value, dimension |-> Len(column_space)],
                 row_space |-> [basis |-> conv[4].value, dimension |-> Len(row_space)],
                 null_space |-> [basis |-> conv[5].value, dimension |-> Len(null_space)],
                 left_null_space |-> [basis |-> conv[6].value,
                                      dimension |-> Len(left_null_space)],
                 dimension_check |->
                     [valid |-> /\ Len(column_space) = rk
                                /\ Len(row_space) = rk
                                /\ Len(null_space) = n - rk
                                /\ Len(left_null_space) = m - rk]])

compute_all_spaces(M) ==
    Only({Only({AssembleResult(NRows(M), NCols(M), rk, rr, column_space, row_space,
                               null_space, left_null_space, conv) :
                conv \in {<<sympy_to_python(tolist(M)),
                            sympy_to_python(tolist(rr.mat)),
                            sympy_to_python(tolists(column_space)),
                            sympy_to_python(tolists(row_space)),
                            sympy_to_python(tolists(null_space)),
                            sympy_to_python(tolists(left_null_space))>>}}) :
          rk \in {rank(M)},
          rr \in {rref(M)},
          column_space \in {columnspace(M)},
          row_space \in {rowspace(M)},
          null_space \in {nullspace(M)},
          left_null_space \in {nullspace(Transpose(M))}})

\* engine = MatrixEngine(input_data.matrix); result = engine.compute_all_spaces()
MatrixEngine(matrix_data) ==
    Only({IF parsed.raised # "none" THEN parsed
          ELSE Only({compute_all_spaces(M) : M \in {parsed.value}}) :
          parsed \in {validate_and_parse(matrix_data)}})

(***************************************************************************)
(* computation_cache = TTLCache(maxsize, ttl) of cachetools.  The cache is *)
(* the sequence of its entries [key, value, expires] in the order of its   *)
(* links, least recently used first; every operation reads the timer.      *)
(***************************************************************************)
\* TTLCache.expire(time): drop the entries with expires <= time
Expire(c, time) == SelectSeq(c, LAMBDA e : time < e.expires)

Find(c, key) == {i \in 1..Len(c) : c[i].key = key}

Keys(c) == {c[i].key : i \in 1..Len(c)}

Without(c, key) == SelectSeq(c, LAMBDA e : e.key # key)

\* TTLCache.__contains__: the link is there and not yet expired; the order
\* is left alone
Contains(c, key, time) == \E i \in Find(c, key) : time < c[i].expires

\* a lookup that leaves the order of the links alone
GetItemInPlace(c, key, time) ==
    IF Find(c, key) = {} THEN [cache |-> c, res |-> Raise("KeyError", "'" \o key \o "'")]
    ELSE LET e == c[CHOOSE i \in Find(c, key) : TRUE]
         IN  IF time < e.expires THEN [cache |-> c, res |-> Ok(e.value)]
             ELSE [cache |-> c, res |-> Raise("KeyError", "'" \o key \o "'")]

\* TTLCache.__getitem__: the link moves to the most-recently-used end, and an
\* expired or missing key goes to __missing__, which raises KeyError
GetItem(c, key, time) ==
    IF Find(c, key) = {} THEN [cache |-> c, res |-> Raise("KeyError", "'" \o key \o "'")]
    ELSE LET e == c[CHOOSE i \in Find(c, key) : TRUE]
             moved == Append(Without(c, key), e)
         IN  IF time < e.expires THEN [cache |-> moved, res |-> Ok(e.value)]
             ELSE [cache |-> moved, res |-> Raise("KeyError", "'" \o key \o "'")]

\* Cache.popitem as TTLCache overrides it: the head of the links goes
PopItem(c) == Tail(c)

\* Cache.__setitem__'s loop: while currsize + 1 > maxsize: popitem()
RECURSIVE MakeRoom(_, _)
MakeRoom(c, maxsize) == IF Len(c) + 1 > maxsize THEN MakeRoom(PopItem(c), maxsize) ELSE c

\* TTLCache.__setitem__: expire, make room for a new key, store, and link the
\* key at the most-recently-used end with expires = time + ttl
SetItem(c, key, value, time, maxsize, ttl) ==
    LET live == Expire(c, time)
        room == IF Find(live, key) = {} THEN MakeRoom(live, maxsize) ELSE live
    IN  Append(Without(room, key), [key |-> key, value |-> value, expires |-> time + ttl])

\* TTLCache.clear(): expire, then pop every item
Clear(c, time) == <<>>

\* dict item assignment d[k] = v
DictSet(d, k, v) == [f \in (DOMAIN d) \cup {k} |-> IF f = k THEN v ELSE d[f]]

\* the stored dict is the object the handler returns: cached_result["cached"]
\* = True writes into the cache's own value
SetCachedFlag(c, key) ==
    [i \in 1..Len(c) |-> IF c[i].key = key
                         THEN [c[i] EXCEPT !.value = DictSet(c[i].value, "cached", TRUE)]
                         ELSE c[i]]

(***************************************************************************)
(* The service.  last is the latest request and its response: op, the      *)
(* request body, its cache key, the HTTP status, the detail of an error    *)
(* response, the exception the handler caught and logged, and the body of  *)
(* a 200 response.  accessed and evicted are history variables: the keys   *)
(* the cache holds, in the order of their latest access by a handler (a    *)
(* lookup hit or an insert, oldest first), and the unexpired keys the      *)
(* latest handler's insert pushed out.                                     *)
(***************************************************************************)
NoBody == [none |-> TRUE]

Response(op, matrix, key, status, exc, detail, body) ==
    [op |-> op, input |-> matrix, key |-> key, status |-> status,
     exc |-> exc, detail |-> detail, body |-> body]

Touch(seq, key) == Append(SelectSeq(seq, LAMBDA k : k # key), key)

Held(seq, c) == SelectSeq(seq, LAMBDA k : k \in Keys(c))

\* MatrixInput.validate_matrix: an empty body is refused before the handler
\* runs (FastAPI answers 422)
validate_matrix(v) == IF v = <<>> THEN Raise("ValueError", EmptyMsg) ELSE Ok(v)

\* compute_subspaces, lines 208-242.  outcome is what lines 223-224 (the
\* engine) end in; the membership test reads the timer at now, the next
\* cache operation d later.
compute_subspaces(matrix, outcome, d) ==
    LET cache_key == generate_cache_key(matrix)
        later == now + d
    IN  /\ now' = later
        /\ IF Contains(cache, cache_key, now)
           THEN LET got == GetItem(cache, cache_key, later)
                IN  IF got.res.raised # "none"
                    THEN /\ cache' = got.cache
                         /\ UNCHANGED accessed
                         /\ evicted' = {}
                         /\ last' = Response("compute", matrix, cache_key, 500,
                                             got.res.raised,
                                             "Computation error: " \o got.res.msg, NoBody)
                    ELSE /\ cache' = SetCachedFlag(got.cache, cache_key)
                         /\ accessed' = Touch(accessed, cache_key)
                         /\ evicted' = {}
                         /\ last' = Response("compute", matrix, cache_key, 200, "none", "",
                                             DictSet(got.res.value, "cached", TRUE))
           ELSE IF outcome.raised = "ValueError"
           THEN /\ UNCHANGED <<cache, accessed>>
                /\ evicted' = {}
                /\ last' = Response("compute", matrix, cache_key, 400, "ValueError",
                                    outcome.msg, NoBody)
           ELSE IF outcome.raised # "none"
           THEN /\ UNCHANGED <<cache, accessed>>
                /\ evicted' = {}
                /\ last' = Response("compute", matrix, cache_key, 500, outcome.raised,
                                    "Computation error: " \o outcome.msg, NoBody)
           ELSE LET result == DictSet(outcome.value, "cached", FALSE)
                IN  /\ cache' = SetItem(cache, cache_key, result, later, CacheSize, CacheTtl)
                    /\ accessed' = Touch(Held(accessed, cache'), cache_key)
                    /\ evicted' = Keys(Expire(cache, later)) \ Keys(cache')
                    /\ last' = Response("compute", matrix, cache_key, 200, "none", "", result)

\* a handler that stores the text of an engine failure as the result
PostComputeStoringFailures(matrix, outcome, d) ==
    IF validate_matrix(matrix).raised # "none"
    THEN /\ last' = Response("compute", matrix, "", 422, "ValueError",
                             validate_matrix(matrix).msg, NoBody)
         /\ evicted' = {}
         /\ UNCHANGED <<cache, now, accessed>>
    ELSE compute_subspaces(matrix,
                           IF outcome.raised = "none" THEN outcome
                           ELSE Ok([error |-> outcome.msg]), d)

\* POST /api/compute
PostCompute(matrix, outcome, d) ==
    IF validate_matrix(matrix).raised # "none"
    THEN /\ last' = Response("compute", matrix, "", 422, "ValueError",
                             validate_matrix(matrix).msg, NoBody)
         /\ evicted' = {}
         /\ UNCHANGED <<cache, now, accessed>>
    ELSE compute_subspaces(matrix, outcome, d)

\* DELETE /api/cache/clear
clear_cache ==
    /\ cache' = Clear(cache, now)
    /\ accessed' = <<>>
    /\ evicted' = {}
    /\ last' = Response("clear", <<>>, "", 200, "none", "", NoBody)
    /\ UNCHANGED now

\* GET /api/cache/stats: len(computation_cache) purges the expired entries
cache_stats ==
    /\ cache' = Expire(cache, now)
    /\ last' = Response("stats", <<>>, "", 200, "none", "",
                        [current_size |-> Len(Expire(cache, now)), max_size |-> CacheSize,
                         ttl_seconds |-> CacheTtl])
    /\ accessed' = Held(accessed, cache')
    /\ evicted' = {}
    /\ UNCHANGED now

\* time.monotonic() advances
Tick ==
    /\ now < MaxTime
    /\ now' = now + 1
    /\ UNCHANGED <<cache, last, accessed, evicted>>

(***************************************************************************)
(* Request bodies.                                                         *)
(***************************************************************************)
IntValues == {0, 1}

\* every integer matrix of at most MaxRows x MaxCols over IntValues
IntMatrices ==
    UNION {[1..r -> [1..c -> {IntLit(v) : v \in IntValues}]] : r \in 1..MaxRows, c \in 1..MaxCols}

\* 1, 1.0, "1", 0.5, "1/2", "0.5", 2 and a string that is no number
Literals ==
    {IntLit(1), FloatLit(10), StrLit(<<"1">>), FloatLit(5), StrLit(<<"1", "/", "2">>),
     StrLit(<<"0", ".", "5">>), IntLit(2), StrLit(<<"x">>)}

\* single rows of at most MaxCols literals of any kind
MixedRows == UNION {[1..1 -> [1..c -> Literals]] : c \in 1..MaxCols}

\* r rows of ones, the first of length c1 and the others of length c2, up to
\* one more than MAX_DIMENSION each way; and the empty body
Shaped(r, c1, c2) ==
    [i \in 1..r |-> [j \in 1..(IF i = 1 THEN c1 ELSE c2) |-> IntLit(1)]]

ShapeProbes ==
    {<<>>} \cup {Shaped(r, c1, c2) : r \in 1..(MAX_DIMENSION + 1),
                                     c1 \in 0..(MAX_DIMENSION + 1),
                                     c2 \in 0..(MAX_DIMENSION + 1)}

Inputs == IntMatrices \cup MixedRows \cup ShapeProbes

\* the bodies every client may post at any time
CacheInputs == {<<<<IntLit(v)>>>> : v \in 0..CacheSize}

(***************************************************************************)
(* Spec: the service as the code has it.  request is the request body of  *)
(* the behaviour's client, any of Inputs; it is posted any number of       *)
(* times, among cache administration requests and the passing of time.     *)
(***************************************************************************)
Start ==
    /\ cache = <<>>
    /\ now = 0
    /\ accessed = <<>>
    /\ evicted = {}
    /\ last = Response("start", <<>>, "", 0, "none", "", NoBody)

Init == Start /\ request \in Inputs

Compute ==
    \E outcome \in {MatrixEngine(request)} :
        \E d \in 0..1 :
            /\ now + d <= MaxTime
            /\ PostCompute(request, outcome, d)
            /\ UNCHANGED request

ClearCache == clear_cache /\ UNCHANGED request

CacheStats == cache_stats /\ UNCHANGED request

Advance == Tick /\ UNCHANGED request

Next == Compute \/ ClearCache \/ CacheStats \/ Advance

Spec == Init /\ [][Next]_vars

(***************************************************************************)
(* CacheSpec: the cache under the handler for every outcome of the engine  *)
(* call of lines 223-224: the one the engine has, or a returned result.    *)
(* The engine is a function of its input, so the result returned for a     *)
(* request body is identified by that body.                                *)
(***************************************************************************)
ResultOf(matrix) == [result_of |-> matrix]

CacheInit == Start /\ request = <<>>

\* the bodies posted to the cache: those of CacheInputs and one the parser
\* refuses
CacheBodies == CacheInputs \cup {<<<<StrLit(<<"x">>)>>>>}

\* what the engine call of lines 223-224 ends in, for each body of CacheBodies
EngineRuns == [m \in CacheBodies |-> MatrixEngine(m)]

\* the outcomes of the engine call: the one the engine has and, for a body
\* the parser accepts, a returned result
Outcomes(matrix) ==
    {EngineRuns[matrix]} \cup
        (IF EngineRuns[matrix].raised = "ValueError" THEN {} ELSE {Ok(ResultOf(matrix))})

ComputeAny ==
    \E matrix \in CacheBodies :
        \E outcome \in Outcomes(matrix), d \in 0..1 :
            /\ now + d <= MaxTime
            /\ PostCompute(matrix, outcome, d)
            /\ UNCHANGED request

CacheNext == ComputeAny \/ ClearCache \/ CacheStats \/ Advance

CacheSpec == CacheInit /\ [][CacheNext]_vars

(***************************************************************************)
(* Vocabulary of the properties.                                           *)
(***************************************************************************)
\* a numeric string: [-]digits, [-]digits/digits with a nonzero denominator,
\* or [-]digits.digits
NumericString(cs) ==
    LET u == IF cs # <<>> /\ cs[1] = "-" THEN Tail(cs) ELSE cs
    IN  \/ IsDigits(u)
        \/ \E i \in 2..(Len(u) - 1) :
              /\ u[i] \in {"/", "."}
              /\ IsDigits(SubSeq(u, 1, i - 1))
              /\ IsDigits(SubSeq(u, i + 1, Len(u)))
              /\ (u[i] = "/" => DigitsVal(SubSeq(u, i + 1, Len(u))) # 0)

\* a valid input matrix: rectangular, 1 to 5 rows and columns, every entry
\* an integer, a float or a numeric string
ValidMatrix(raw) ==
    /\ Len(raw) \in 1..5
    /\ Len(raw[1]) \in 1..5
    /\ \A i \in 1..Len(raw) : Len(raw[i]) = Len(raw[1])
    /\ \A i \in 1..Len(raw) : \A j \in 1..Len(raw[i]) :
          raw[i][j].kind = "str" => NumericString(raw[i][j].s)

\* the error kinds of the specification, by the message the code reports
ErrorKind(detail) ==
    CASE detail = EmptyMsg -> "EmptyMatrix"
      [] detail = ZeroColsMsg -> "ZeroColumns"
      [] detail = RaggedMsg -> "NonRectangular"
      [] detail \in {RowsMsg(k) : k \in 0..(MAX_DIMENSION + 3)}
                    \cup {ColsMsg(k) : k \in 0..(MAX_DIMENSION + 3)} -> "DimensionExceeded"
      [] OTHER -> "Other"

Computed == last.op = "compute"

\* the matrix the parser makes of the latest request body
Parsed == validate_and_parse(last.input).value

(***************************************************************************)
(* C1 to C3, C9, C10: the engine behind the service (Spec).                *)
(***************************************************************************)
\* C1: a compute request for a valid matrix completes with a Computation
\* Result (status 200), never with an internal error, and only invalid input
\* is refused.
C1_ValidInputCompletes ==
    Computed =>
        /\ ValidMatrix(last.input) => last.status = 200
        /\ last.status \in {400, 422} => ~ValidMatrix(last.input)

\* what the code does instead: every valid matrix ends in the internal error
\* raised by sympy_to_python
ValidInputEndsInTypeError ==
    (Computed /\ last.input # <<>> /\ ValidMatrix(last.input)) =>
        (last.status = 500 /\ last.exc = "TypeError" /\ cache = <<>>)

\* C2: for a valid m x n matrix the result has dim(column_space) =
\* dim(row_space) = rank, rank + dim(null_space) = n, rank +
\* dim(left_null_space) = m and dimension_check.valid true.
C2_ResultDimensions ==
    (Computed /\ last.input # <<>> /\ ValidMatrix(last.input)) =>
        /\ last.status = 200
        /\ last.body.column_space.dimension = last.body.rank
        /\ last.body.row_space.dimension = last.body.rank
        /\ last.body.rank + last.body.null_space.dimension = last.body.matrix.cols
        /\ last.body.rank + last.body.left_null_space.dimension = last.body.matrix.rows
        /\ last.body.dimension_check.valid

\* the values compute_all_spaces holds in its locals before the result is
\* assembled do satisfy the relations
LocalsDimensions ==
    (Computed /\ last.input # <<>> /\ ValidMatrix(last.input)) =>
        \A M \in {Parsed} :
            /\ Len(columnspace(M)) = rank(M)
            /\ Len(rowspace(M)) = rank(M)
            /\ rank(M) + Len(nullspace(M)) = NCols(M)
            /\ rank(M) + Len(nullspace(Transpose(M))) = NRows(M)
            /\ Len(rref(M).pivots) = rank(M)

\* C3: two compute requests in a row for the same valid matrix, with less
\* than the time-to-live between them: the second returns the first's result
\* with cached = true; and a request that follows clear() is recomputed.
C3_RoundTrip ==
    [][/\ ( /\ Computed
            /\ last.input # <<>>
            /\ ValidMatrix(last.input)
            /\ Compute
            /\ last'.key = last.key
            /\ now' - now < CacheTtl )
          => ( /\ last.status = 200
               /\ last'.status = 200
               /\ last'.body = DictSet(last.body, "cached", TRUE) )
       /\ ( /\ last.op = "clear"
            /\ Compute
            /\ last'.input # <<>>
            /\ ValidMatrix(last'.input) )
          => ( last'.status = 200 /\ last'.body.cached = FALSE )]_vars

\* C9: for a valid matrix the result's column space basis is the list of the
\* original matrix's columns at the pivots of rref.pivots, in pivot order.
C9_ColumnSpaceInResult ==
    (Computed /\ last.input # <<>> /\ ValidMatrix(last.input)) =>
        /\ last.status = 200
        /\ \A b \in {last.body} :
              b.column_space.basis.items =
                  [k \in 1..Len(b.rref.pivots) |->
                      PyList([i \in 1..b.matrix.rows |->
                          PyList(<<b.matrix.data.items[i].items[b.rref.pivots[k]]>>)])]

\* the column space compute_column_space returns is made of the pivot columns
LocalsColumnSpace ==
    (Computed /\ last.input # <<>> /\ ValidMatrix(last.input)) =>
        \A M \in {Parsed} :
            columnspace(M) = [k \in 1..Len(rref(M).pivots) |->
                                 [i \in 1..NRows(M) |-> <<M[i][rref(M).pivots[k]]>>]]

\* C10: for a valid matrix the row space basis computed for the result is the
\* first rank rows of the reduced row-echelon form computed for rref.matrix.
C10_RowSpaceIsRrefRows ==
    (Computed /\ last.input # <<>> /\ ValidMatrix(last.input)) =>
        \A M \in {Parsed} :
            rowspace(M) = [k \in 1..rank(M) |-> <<rref(M).mat[k]>>]

\* what compute_row_space returns: the first rank rows of the echelon form,
\* neither normalised nor cleared above the pivots
LocalsRowSpace ==
    (Computed /\ last.input # <<>> /\ ValidMatrix(last.input)) =>
        \A M \in {Parsed} :
            rowspace(M) = [k \in 1..rank(M) |-> <<echelon_form(M).mat[k]>>]

(***************************************************************************)
(* C6 to C8: validation and fingerprints (Spec).                           *)
(***************************************************************************)
\* C6: a request whose matrix has more than 5 rows, or whose rows (the first
\* row's length, which is the number of columns the code reads) have more
\* than 5 entries, is refused with DimensionExceeded and no result.
C6_DimensionExceeded ==
    (Computed /\ last.input # <<>>
       /\ (Len(last.input) > 5 \/ Len(last.input[1]) > 5)) =>
        /\ last.status = 400
        /\ ErrorKind(last.detail) = "DimensionExceeded"
        /\ last.body = NoBody
        /\ cache = <<>>

\* a 5-row matrix of 6 columns has been refused for its columns
C6_Witness ==
    /\ Computed
    /\ Len(last.input) = 5
    /\ Len(last.input[1]) = 6
    /\ last.status = 400
    /\ last.detail = ColsMsg(6)

\* C7 as stated: a request whose outer list is empty or whose first row is
\* empty is refused with EmptyMatrix.
C7_EmptyMatrix ==
    (Computed /\ (last.input = <<>> \/ Len(last.input[1]) = 0)) =>
        /\ last.status \in {400, 422}
        /\ ErrorKind(last.detail) = "EmptyMatrix"

\* C7 amended: an empty outer list is refused with EmptyMatrix; an empty
\* first row is refused with ZeroColumns when the matrix has at most 5 rows
\* and with DimensionExceeded when it has more.
C7_EmptyOrZeroColumns ==
    Computed =>
        /\ last.input = <<>> =>
              (last.status \in {400, 422} /\ ErrorKind(last.detail) = "EmptyMatrix")
        /\ (last.input # <<>> /\ Len(last.input[1]) = 0) =>
              /\ last.status = 400
              /\ ErrorKind(last.detail) =
                    IF Len(last.input) <= 5 THEN "ZeroColumns" ELSE "DimensionExceeded"
        /\ ErrorKind(last.detail) = "EmptyMatrix" => last.input = <<>>

\* a matrix of two rows whose first row is empty has been refused
C7_Witness ==
    /\ Computed
    /\ Len(last.input) = 2
    /\ Len(last.input[1]) = 0
    /\ last.status = 400
    /\ last.detail = ZeroColsMsg

\* two request bodies that parse to the same matrix of rationals
SameMatrix(A, B) ==
    /\ Len(A) = Len(B)
    /\ \A i \in 1..Len(A) : Len(A[i]) = Len(B[i])
    /\ ValidMatrix(A)
    /\ ValidMatrix(B)
    /\ validate_and_parse(A).value = validate_and_parse(B).value

\* C8 as stated: bodies that parse to the same matrix have the same
\* fingerprint, whether an entry is written as an integer, a float or a
\* numeric string.
C8_SameMatrixSameKey ==
    (Computed /\ last.input \in MixedRows) =>
        \A B \in MixedRows :
            SameMatrix(B, last.input) => generate_cache_key(B) = last.key

\* C8 amended: two bodies have the same fingerprint exactly when they are
\* the same literal for literal; bodies that differ in a literal's kind or
\* text have different fingerprints even when they parse to the same matrix.
C8_SameTextSameKey ==
    (Computed /\ last.input \in MixedRows) =>
        \A B \in MixedRows :
            (generate_cache_key(B) = last.key) <=> (B = last.input)

\* a request <<1.0>> has been keyed, and <<1>> and <<"1">> parse to the same
\* matrix under other keys
C8_Witness ==
    /\ Computed
    /\ last.input = <<<<FloatLit(10)>>>>
    /\ last.key = generate_cache_key(<<<<FloatLit(10)>>>>)
    /\ \A B \in {<<<<IntLit(1)>>>>, <<<<StrLit(<<"1">>)>>>>} :
          SameMatrix(B, last.input) /\ generate_cache_key(B) # last.key

(***************************************************************************)
(* C4, C5: the cache under the handler (CacheSpec).                        *)
(***************************************************************************)
\* the cache holds an entry for key that has expired by time t
ExpiredAt(c, key, t) == \E i \in Find(c, key) : c[i].expires <= t

\* r is a response of the miss path: a freshly computed result, or the
\* engine's own failure
MissResponse(r) ==
    \/ r.status = 200 /\ r.body.cached = FALSE
    \/ /\ r.status \in {400, 500}
       /\ MatrixEngine(r.input).raised # "none"
       /\ r.exc = MatrixEngine(r.input).raised

ExpiredAtTestIsAbsent ==
    [][(ComputeAny /\ last'.status # 422
          /\ ExpiredAt(cache, last'.key, now))
       => MissResponse(last')]_vars

\* the position of key in the access history
Pos(seq, key) == CHOOSE i \in 1..Len(seq) : seq[i] = key

\* the least recently accessed of the keys of c
Lru(c) == CHOOSE k \in Keys(c) : \A k2 \in Keys(c) : Pos(accessed, k) <= Pos(accessed, k2)

\* this step inserts a new key into a cache full of unexpired entries
InsertWhenFull ==
    /\ ComputeAny
    /\ last'.status = 200
    /\ last'.body.cached = FALSE
    /\ last'.key \notin Keys(cache)
    /\ Len(cache) = CacheSize
    /\ \A i \in 1..Len(cache) : now' < cache[i].expires

\* C5: the cache never holds more than CacheSize entries, and an insert that
\* finds it full of unexpired entries evicts exactly one entry, the least
\* recently accessed one (accessed by a lookup hit or an insert), and keeps
\* the others.
C5_CapacityAndLru ==
    /\ [](Len(cache) <= CacheSize)
    /\ [][InsertWhenFull =>
            /\ Keys(cache') = (Keys(cache) \ {Lru(cache)}) \cup {last'.key}
            /\ Len(cache') = CacheSize
            /\ \A i \in 1..Len(cache) :
                  cache[i].key # Lru(cache) => \E j \in 1..Len(cache') : cache'[j] = cache[i]]_vars

\* an insert has evicted a key from a full cache of unexpired entries and
\* kept an older entry that a lookup hit had refreshed
C5_Witness ==
    /\ Computed
    /\ last.status = 200
    /\ last.body.cached = FALSE
    /\ Len(cache) = CacheSize
    /\ now < CacheTtl
    /\ evicted # {}
    /\ cache[1].value.cached = TRUE
    /\ cache[Len(cache)].key = last.key

(***************************************************************************)
(* C11: the reduction is idempotent (Spec).                                *)
(***************************************************************************)
\* C11: for every valid matrix A of a compute request, get_rref applied to
\* the matrix rref(A) returns that matrix unchanged, with the pivot columns
\* of rref(A).
C11_RrefIdempotent ==
    (Computed /\ last.input # <<>> /\ ValidMatrix(last.input)) =>
        \A R \in {rref(Parsed)} :
            /\ rref(R.mat).mat = R.mat
            /\ rref(R.mat).pivots = R.pivots

\* the engine has reduced a matrix of two rows and full row rank that was
\* not reduced already, and reducing the outcome again changes nothing
C11_Witness ==
    /\ Computed
    /\ Len(last.input) = 2
    /\ ValidMatrix(last.input)
    /\ \A R \in {rref(Parsed)} :
          /\ Len(R.pivots) = 2
          /\ R.mat # Parsed
          /\ rref(R.mat) = R

(***************************************************************************)
(* C13: how cache entries come to be (CacheSpec).                          *)
(***************************************************************************)
Entries(c) == {c[i] : i \in 1..Len(c)}

\* the links of c: each key with its expiry time
Links(c) == {<<c[i].key, c[i].expires>> : i \in 1..Len(c)}

\* value is a result computed for key, as stored (cached = false) or after a
\* later hit has flagged it
StoredFor(key, value) ==
    /\ DOMAIN value = {"result_of", "cached"}
    /\ value.result_of \in CacheBodies
    /\ generate_cache_key(value.result_of) = key
    /\ value.cached \in BOOLEAN

\* C13: a compute request that ends in a validation error or an internal
\* error leaves the entries of the cache as they were; a new entry appears
\* only in a compute request that missed and computed a result, under that
\* request's fingerprint and with that result; so every entry in the cache
\* holds a result computed for its fingerprint.
C13_EntriesFromComputedMisses ==
    /\ [](\A e \in Entries(cache) : StoredFor(e.key, e.value))
    /\ [][(ComputeAny /\ last'.status # 200) => Entries(cache') = Entries(cache)]_vars
    /\ [][(Links(cache') \ Links(cache) # {}) =>
            /\ ComputeAny
            /\ last'.status = 200
            /\ last'.body.cached = FALSE
            /\ ~Contains(cache, last'.key, now)
            /\ Links(cache') \ Links(cache) = {<<last'.key, now' + CacheTtl>>}
            /\ cache'[Len(cache')].value = last'.body]_vars

\* a request has ended in an error while the cache held an entry under the
\* request's own fingerprint, and the entry is still there
C13_Witness ==
    /\ Computed
    /\ last.status = 500
    /\ \E e \in Entries(cache) : e.key = last.key /\ StoredFor(e.key, e.value)

\* a request has been refused by the parser while the cache held an entry
ValidationErrorBesideEntry ==
    Computed /\ last.status = 400 /\ cache # <<>>

(***************************************************************************)
(* ConcSpec: concurrent requests.  The handlers are coroutines on one      *)
(* event loop (uvicorn.run(app), one process); control passes to another   *)
(* request only at an await.  The middleware awaits call_next (lines 82,   *)
(* 101), so any number of requests can be in flight and their handlers run *)
(* in any order; the bodies of compute_subspaces (lines 208-242) and       *)
(* clear_cache (lines 334-336) hold no await, so each runs in one step.    *)
(* Here request is the request each client has in flight.  The clock       *)
(* stands still in ConcSpec: what the passing of time does to a lookup is  *)
(* followed in CacheSpec.                                                  *)
(***************************************************************************)
Clients == {"a", "b"}

Idle == [op |-> "idle", matrix |-> <<>>, pc |-> "idle"]

InFlight(op, matrix) == [op |-> op, matrix |-> matrix, pc |-> "received"]

ConcInit == Start /\ request = [c \in Clients |-> Idle]

\* a request enters the middleware, which awaits the handler
Arrive(c) ==
    /\ request[c] = Idle
    /\ \E r \in {InFlight("compute", m) : m \in CacheInputs} \cup {InFlight("clear", <<>>)} :
          request' = [request EXCEPT ![c] = r]
    /\ UNCHANGED <<cache, now, last, accessed, evicted>>

\* a compute handler that awaits between the membership test of line 213
\* and the read of line 215
HandleComputeAwaiting(c) ==
    /\ request[c].op = "compute"
    /\ LET matrix == request[c].matrix
           cache_key == generate_cache_key(matrix)
       IN  IF request[c].pc = "received" /\ Contains(cache, cache_key, now)
           THEN /\ request' = [request EXCEPT ![c].pc = "tested"]
                /\ UNCHANGED <<cache, now, last, accessed, evicted>>
           ELSE IF request[c].pc = "received"
           THEN /\ \E outcome \in Outcomes(matrix) : PostCompute(matrix, outcome, 0)
                /\ request' = [request EXCEPT ![c] = Idle]
           ELSE /\ \E d \in {0} :
                      /\ now' = now + d
                      /\ \E got \in {GetItem(cache, cache_key, now + d)} :
                            IF got.res.raised # "none"
                            THEN /\ cache' = got.cache
                                 /\ UNCHANGED accessed
                                 /\ last' = Response("compute", matrix, cache_key, 500,
                                                     got.res.raised,
                                                     "Computation error: " \o got.res.msg,
                                                     NoBody)
                            ELSE /\ cache' = SetCachedFlag(got.cache, cache_key)
                                 /\ accessed' = Touch(accessed, cache_key)
                                 /\ last' = Response("compute", matrix, cache_key, 200,
                                                     "none", "",
                                                     DictSet(got.res.value, "cached", TRUE))
                /\ evicted' = {}
                /\ request' = [request EXCEPT ![c] = Idle]

\* the event loop runs the compute handler of a request in flight, to its end
HandleCompute(c) ==
    /\ request[c].op = "compute"
    /\ \E outcome \in Outcomes(request[c].matrix) :
          PostCompute(request[c].matrix, outcome, 0)
    /\ request' = [request EXCEPT ![c] = Idle]

\* the event loop runs the clear handler of a request in flight, to its end
HandleClear(c) ==
    /\ request[c].op = "clear"
    /\ clear_cache
    /\ request' = [request EXCEPT ![c] = Idle]

ConcNext ==
    \/ \E c \in Clients : Arrive(c)
    \/ \E c \in Clients : HandleCompute(c)
    \/ \E c \in Clients : HandleClear(c)

ConcSpec == ConcInit /\ [][ConcNext]_vars

(***************************************************************************)
(* C12: atomicity of the cache operations under concurrency (ConcSpec).    *)
(***************************************************************************)
\* every entry of the cache is whole: one entry per key, a complete result
\* under its own key, no more entries than the capacity, and no key that
\* the latest insert pushed out
CacheWellFormed ==
    /\ Cardinality(Keys(cache)) = Len(cache)
    /\ Len(cache) <= CacheSize
    /\ \A e \in Entries(cache) : StoredFor(e.key, e.value) /\ e.expires \in Nat
    /\ evicted \cap Keys(cache) = {}

\* the compute handler of client c runs to its end in this step
Handled(c) == request[c].op = "compute" /\ request'[c] = Idle

\* the membership test of c's handler answers, or has answered, present
SawPresent(c) ==
    \/ request[c].pc = "tested"
    \/ Contains(cache, generate_cache_key(request[c].matrix), now)

\* C12: with any number of compute and clear requests in flight and their
\* handlers run in any order, the cache is whole in every state a handler
\* can see, and a compute handler whose membership test found its key reads
\* the entry of that key: it answers with the stored result, and fails only
\* when the entry is in the cache and has expired (C4), never because a
\* clear or an eviction of another request removed it in between.
C12_HandlersAtomic ==
    /\ [](CacheWellFormed)
    /\ [][\A c \in Clients :
            (Handled(c) /\ SawPresent(c)) =>
                \A key \in {generate_cache_key(request[c].matrix)} :
                    \/ /\ last'.status = 200
                       /\ last'.key = key
                       /\ last'.body.cached = TRUE
                       /\ StoredFor(key, last'.body)
                    \/ /\ last'.exc = "KeyError"
                       /\ ExpiredAt(cache, key, now')]_vars

\* a compute request has been served from the cache while a clear request
\* and nothing else was in flight beside it
C12_Witness ==
    /\ Computed
    /\ last.status = 200
    /\ last.body.cached = TRUE
    /\ cache # <<>>
    /\ \E c \in Clients : request[c].op = "clear"
    /\ \E c \in Clients : request[c] = Idle

====
